---- MODULE Spec2Model ----
(***************************************************************************)
(* A model of zombie/zombie.py: ExceptionTransformation, the matcher       *)
(* _raise_transformed_exception, the single-rule raise                     *)
(* _transform_and_raise, the wrapper built by _reraise_decorator and the   *)
(* Reraise guard (constructor, __enter__/__exit__, decorate, __call__).    *)
(*                                                                         *)
(* Python values are tagged records [t, s, n]: t is the type name, s the   *)
(* characters of a str or of a string.Template's text, n an int.  A text   *)
(* is a sequence of one-character strings, so that rendering (str, repr)   *)
(* and Template.safe_substitute are computed character by character.       *)
(* Exception objects live in heap; an object's identity is its index, and  *)
(* 0 stands for None where an exception is expected.                       *)
(***************************************************************************)
EXTENDS Integers, Sequences, FiniteSets, TLC

\* ------------------------------------------------------------------ bounds

\* Longest sequence of rules a guard is constructed from.
MaxRules == 2
\* Number of times one guard is used (scoped blocks and wrapped calls).
MaxUses == 2
\* Longest sequence of rules the outer of two nested guards is constructed
\* from.
MaxOuterRules == 1

\* ------------------------------------------------------------- Python values

PyNone == [t |-> "NoneType", s |-> <<>>, n |-> 0]
PyStr(chars) == [t |-> "str", s |-> chars, n |-> 0]
PyInt(k) == [t |-> "int", s |-> <<>>, n |-> k]
PyBool(b) == [t |-> "bool", s |-> <<>>, n |-> IF b THEN 1 ELSE 0]
\* string.Template(text): the object keeps its template text.
PyTemplate(chars) == [t |-> "Template", s |-> chars, n |-> 0]

Range(f) == {f[x] : x \in DOMAIN f}

\* ----------------------------------------------------------- exception kinds

\* The builtin exception classes used, each with its direct base class.
Base(k) ==
    CASE k = "BaseException" -> "object"
      [] k = "Exception" -> "BaseException"
      [] k = "LookupError" -> "Exception"
      [] k = "KeyError" -> "LookupError"
      [] k = "ValueError" -> "Exception"
      [] k = "TypeError" -> "Exception"
      [] k = "RuntimeError" -> "Exception"
      [] k = "AttributeError" -> "Exception"
      [] OTHER -> "object"

\* issubclass(k, cls): walk the base classes of k up to object.
RECURSIVE IsSubclass(_, _)
IsSubclass(k, cls) ==
    IF k = cls THEN TRUE
    ELSE IF k = "object" THEN FALSE
    ELSE IsSubclass(Base(k), cls)

\* A mis-implementation of the match: the exact kind only.
IsInstance_ExactKind(kind, cls) == kind = cls

\* isinstance(error, transform.original_exception), on the error's class.
IsInstance(kind, cls) == IsSubclass(kind, cls)

\* ------------------------------------------------------------------- texts

Letters ==
    {"a", "b", "c", "d", "e", "f", "g", "h", "i", "j", "k", "l", "m", "n",
     "o", "p", "q", "r", "s", "t", "u", "v", "w", "x", "y", "z", "A", "B",
     "C", "D", "E", "F", "G", "H", "I", "J", "K", "L", "M", "N", "O", "P",
     "Q", "R", "S", "T", "U", "V", "W", "X", "Y", "Z"}
Digits == {"0", "1", "2", "3", "4", "5", "6", "7", "8", "9"}
\* [_a-z] and [_a-z0-9] of Template's idpattern, under re.IGNORECASE.
IdStart == Letters \cup {"_"}
IdChar == IdStart \cup Digits

NoneText == <<"N", "o", "n", "e">>

\* The keyword safe_substitute is called with.
OrigName ==
    <<"o", "r", "i", "g", "i", "n", "a", "l", "_", "e", "r", "r", "o", "r",
      "_", "m", "e", "s", "s", "a", "g", "e">>

\* The characters of a str inside repr's quotes: the quote and the
\* backslash are escaped.
RECURSIVE Escape(_, _)
Escape(chars, q) ==
    IF chars = <<>> THEN <<>>
    ELSE (IF Head(chars) = q \/ Head(chars) = "\\"
          THEN <<"\\", Head(chars)>> ELSE <<Head(chars)>>)
         \o Escape(Tail(chars), q)

\* repr(v): a str is quoted with ' unless it holds a ' and no ".
Repr(v) ==
    IF v.t = "str"
    THEN LET q == IF "'" \in Range(v.s) /\ ~("\"" \in Range(v.s))
                  THEN "\"" ELSE "'"
         IN <<q>> \o Escape(v.s, q) \o <<q>>
    ELSE NoneText

\* str(v) of a constructor argument: a str is itself, None is "None".
StrOf(v) == IF v.t = "str" THEN v.s ELSE NoneText

\* str(error): BaseException.__str__ renders no argument as "" and one
\* argument as str(arg); KeyError.__str__ renders one argument as repr(arg).
Str(e) ==
    IF Len(e.args) = 0 THEN <<>>
    ELSE IF IsSubclass(e.kind, "KeyError") THEN Repr(e.args[1])
    ELSE StrOf(e.args[1])

\* The end of the identifier that starts at position p of chars.
RECURSIVE IdEnd(_, _)
IdEnd(chars, p) ==
    IF p + 1 <= Len(chars) /\ chars[p + 1] \in IdChar
    THEN IdEnd(chars, p + 1) ELSE p

\* A strict substitution: a name the mapping lacks has no replacement.
Convert_Dropped(name, group, value) == IF name = OrigName THEN value ELSE <<>>

\* What a placeholder naming `name`, written as `group`, is replaced by:
\* the mapping's value for original_error_message, the text itself for a
\* name the mapping lacks.
Convert(name, group, value) == IF name = OrigName THEN value ELSE group

\* Template.safe_substitute(original_error_message=value), scanning the
\* template from position p: $$ gives $, $name and ${name} are converted,
\* any other $ stays.
RECURSIVE Substitute(_, _, _)
Substitute(chars, p, value) ==
    IF p > Len(chars) THEN <<>>
    ELSE IF chars[p] # "$" THEN <<chars[p]>> \o Substitute(chars, p + 1, value)
    ELSE IF p + 1 <= Len(chars) /\ chars[p + 1] = "$"
         THEN <<"$">> \o Substitute(chars, p + 2, value)
    ELSE IF p + 1 <= Len(chars) /\ chars[p + 1] \in IdStart
         THEN LET e == IdEnd(chars, p + 1)
              IN Convert(SubSeq(chars, p + 1, e), SubSeq(chars, p, e), value)
                 \o Substitute(chars, e + 1, value)
    ELSE IF /\ p + 2 <= Len(chars)
            /\ chars[p + 1] = "{"
            /\ chars[p + 2] \in IdStart
            /\ IdEnd(chars, p + 2) + 1 <= Len(chars)
            /\ chars[IdEnd(chars, p + 2) + 1] = "}"
         THEN LET e == IdEnd(chars, p + 2)
              IN Convert(SubSeq(chars, p + 2, e), SubSeq(chars, p, e + 1), value)
                 \o Substitute(chars, e + 2, value)
    ELSE <<"$">> \o Substitute(chars, p + 1, value)

SafeSubstitute(chars, value) == Substitute(chars, 1, value)

\* ------------------------------------------------- ExceptionTransformation

\* ExceptionTransformation.__init__: the four attributes, as given.
ExceptionTransformation(original_exception, new_exception, error_message, raise_from_error) ==
    [t |-> "ExceptionTransformation",
     original_exception |-> original_exception,
     new_exception |-> new_exception,
     error_message |-> error_message,
     from_error |-> raise_from_error]

\* An exception object: its class, its constructor arguments, and the
\* __cause__, __context__ and __suppress_context__ the raise statement sets.
ExcObject(kind, args, cause, context, suppress) ==
    [kind |-> kind, args |-> args, cause |-> cause, context |-> context,
     suppress_context |-> suppress]

NoObject == ExcObject("object", <<>>, 0, 0, FALSE)

\* _transform_and_raise, the message: error_message is the rule's (None
\* when the rule has none), and a Template is replaced by its substitution
\* of str(error).
ErrorMessage(transform, error) ==
    IF transform.error_message.t = "Template"
    THEN PyStr(SafeSubstitute(transform.error_message.s, Str(error)))
    ELSE transform.error_message

\* A raise that chains from the error whatever the rule says.
RaiseFrom_Always(transform, errorId) == errorId

\* _transform_and_raise, the cause: `from error` or `from None`.
RaiseFrom(transform, errorId) == IF transform.from_error THEN errorId ELSE 0

\* _transform_and_raise: the exception object raised for a matched rule
\* while the exception `handled` is being handled.  Both forms of
\* `raise ... from` set __suppress_context__.
TransformAndRaise(transform, errorId, handled, h) ==
    ExcObject(transform.new_exception,
              <<ErrorMessage(transform, h[errorId])>>,
              RaiseFrom(transform, errorId), handled, TRUE)

\* A _transform_and_raise that stores the substituted message in the rule.
RuleAfter_WrittenBack(transform, error) ==
    [transform EXCEPT !.error_message = ErrorMessage(transform, error)]

\* _transform_and_raise, the rule after the call: error_message is a local
\* name, bound to the rule's message and then to the substitution, and no
\* attribute of the rule is assigned.
RuleAfter(transform, error) == transform

\* The tuple a guard or a wrapper holds, after a call of _transform_and_raise
\* on one of the rule objects in it: the tuple holds the objects themselves.
Held(transformations, transform, after) ==
    [k \in DOMAIN transformations |->
        IF transformations[k] = transform THEN after ELSE transformations[k]]

\* The name of a value's type, as the interpreter prints it.
TypeName(v) ==
    CASE v.t = "str" -> <<"s", "t", "r">>
      [] v.t = "int" -> <<"i", "n", "t">>
      [] v.t = "list" -> <<"l", "i", "s", "t">>
      [] OTHER -> <<"N", "o", "n", "e", "T", "y", "p", "e">>

\* transform.original_exception on an object that is no rule: the
\* interpreter's AttributeError, raised while `handled` is being handled.
NoAttribute(v, handled) ==
    ExcObject("AttributeError",
              <<PyStr(<<"'">> \o TypeName(v) \o
                      <<"'", " ", "o", "b", "j", "e", "c", "t", " ", "h", "a",
                        "s", " ", "n", "o", " ", "a", "t", "t", "r", "i", "b",
                        "u", "t", "e", " ", "'", "o", "r", "i", "g", "i", "n",
                        "a", "l", "_", "e", "x", "c", "e", "p", "t", "i", "o",
                        "n", "'">>)>>,
              0, handled, FALSE)

\* The loop falls off its end without raising.
AfterLoop_Returns(error) == "return"

\* _raise_transformed_exception after the loop: raise error.
AfterLoop(error) == "raise_error"

\* The exception at the far end of the chain of __context__ links.
RECURSIVE Matched_Root(_, _)
Matched_Root(h, errorId) ==
    IF h[errorId].context = 0 THEN h[errorId]
    ELSE Matched_Root(h, h[errorId].context)

\* _raise_transformed_exception, `isinstance(error, ...)`: the exception
\* tested is the one the function is called with, whatever it is chained to.
Matched(h, errorId) == h[errorId]

\* The loop keeps the last matching rule instead of the first.
LoopDecision_LastMatch(transforms, k, error) ==
    IF k > Len(transforms) THEN AfterLoop(error)
    ELSE IF transforms[k].t # "ExceptionTransformation" THEN "attribute_error"
    ELSE IF /\ IsInstance(error.kind, transforms[k].original_exception)
            /\ ~\E later \in (k + 1)..Len(transforms) :
                   /\ transforms[later].t = "ExceptionTransformation"
                   /\ IsInstance(error.kind, transforms[later].original_exception)
         THEN "transform"
    ELSE "next"

\* _raise_transformed_exception, one turn of `for transform in ...` at
\* position k: the loop is over, or the element has no original_exception,
\* or it matches and _transform_and_raise raises, or the loop goes on.
LoopDecision(transforms, k, error) ==
    IF k > Len(transforms) THEN AfterLoop(error)
    ELSE IF transforms[k].t # "ExceptionTransformation" THEN "attribute_error"
    ELSE IF IsInstance(error.kind, transforms[k].original_exception)
         THEN "transform"
    ELSE "next"

\* ------------------------------------------------------------------ Reraise

\* tuple(x) of an iterable: a list's items, a str's characters.
TupleOf(x) ==
    IF x.t = "list" THEN x.items
    ELSE [k \in 1..Len(x.s) |-> PyStr(<<x.s[k]>>)]

\* A constructor that wraps whatever is not a list into a one-element tuple.
NormalizeArg_WrapAny(x) ==
    IF x.t = "list" THEN [ok |-> TRUE, ts |-> x.items]
    ELSE [ok |-> TRUE, ts |-> <<x>>]

\* A constructor that stores the rules of a sequence last to first.
NormalizeArg_Reversed(x) ==
    IF x.t = "ExceptionTransformation" THEN [ok |-> TRUE, ts |-> <<x>>]
    ELSE IF x.t = "list"
         THEN [ok |-> TRUE,
               ts |-> [k \in 1..Len(x.items) |-> x.items[Len(x.items) + 1 - k]]]
    ELSE IF x.t = "str" THEN [ok |-> TRUE, ts |-> TupleOf(x)]
    ELSE [ok |-> FALSE, ts |-> <<>>]

\* Reraise.__init__: a single ExceptionTransformation becomes a one-element
\* tuple, anything else goes through tuple(), which raises TypeError for
\* an object that is not iterable.
NormalizeArg(x) ==
    IF x.t = "ExceptionTransformation" THEN [ok |-> TRUE, ts |-> <<x>>]
    ELSE IF x.t \in {"list", "str"} THEN [ok |-> TRUE, ts |-> TupleOf(x)]
    ELSE [ok |-> FALSE, ts |-> <<>>]

\* tuple(x) of an object that is not iterable: the interpreter's TypeError.
NotIterable(x) ==
    ExcObject("TypeError",
              <<PyStr(<<"'">> \o TypeName(x) \o
                      <<"'", " ", "o", "b", "j", "e", "c", "t", " ", "i", "s",
                        " ", "n", "o", "t", " ", "i", "t", "e", "r", "a", "b",
                        "l", "e">>)>>,
              0, 0, FALSE)

\* A wrapper that ends without handing the value back.
WrapperResult_Dropped(res) == PyNone

\* wrapper, `return result`: the value returned is the local result.
WrapperResult(res) == res

\* Reraise.decorate: the wrapper closes over the guard's transformations.
Decorated(transformations) == transformations

\* A __call__ that hands the callable back with no transformations applied.
Called_Bare(transformations) == <<>>

\* Reraise.__call__: the wrapper decorate returns.
Called(transformations) == Decorated(transformations)

\* ---------------------------------------------- the inputs of the model

\* Texts used by the rules and by the guarded code.
TxtOccurred == <<"A", "n", " ", "e", "r", "r", "o", "r", " ", "o", "c", "c", "u",
          "r", "r", "e", "d">>
TplError ==
    <<"E", "r", "r", "o", "r", ":", " ", "$", "{", "o", "r", "i", "g",
          "i", "n", "a", "l", "_", "e", "r", "r", "o", "r", "_", "m", "e",
          "s", "s", "a", "g", "e", "}">>
TplOther ==
    <<"$", "o", "t", "h", "e", "r", ":", " ", "$", "o", "r", "i", "g",
          "i", "n", "a", "l", "_", "e", "r", "r", "o", "r", "_", "m", "e",
          "s", "s", "a", "g", "e", " ", "$", "$">>
TplMissing == <<"$", "{", "m", "i", "s", "s", "i", "n", "g", "}", " ", "$", " ",
          "{", "x", "}">>
TxtMissing == <<"m", "i", "s", "s", "i", "n", "g">>
TxtBoom == <<"b", "o", "o", "m">>
TxtBad == <<"b", "a", "d">>
TxtIts == <<"i", "t", "'", "s">>
TxtPrior == <<"p", "r", "i", "o", "r">>
TxtStop == <<"s", "t", "o", "p">>

\* The rules guards are built from.
RuleKeyPlain == ExceptionTransformation("KeyError", "ValueError", PyNone, FALSE)
RuleKeyTemplate == ExceptionTransformation("KeyError", "ValueError", PyTemplate(TplError), TRUE)
RuleAnyFixed == ExceptionTransformation("Exception", "RuntimeError", PyStr(TxtOccurred), TRUE)
RuleTypeTemplate == ExceptionTransformation("TypeError", "RuntimeError", PyTemplate(TplOther), FALSE)
RuleLookupTemplate == ExceptionTransformation("LookupError", "KeyError", PyTemplate(TplMissing), TRUE)

Rules ==
    {RuleKeyPlain, RuleKeyTemplate, RuleAnyFixed, RuleTypeTemplate,
     RuleLookupTemplate}

\* The sequences of at most n rules.
RuleSeqs(n) == UNION {[1..m -> Rules] : m \in 0..n}

PyList(items) == [t |-> "list", items |-> items]

\* What Reraise(...) is called with: one rule, or a list of rules.
GoodArgs == Rules \cup {PyList(q) : q \in RuleSeqs(MaxRules)}

\* Arguments that are neither: an int, None, a str, lists with elements
\* that are not rules.
BadArgs ==
    {PyInt(1), PyNone, PyStr(<<"a", "b">>), PyList(<<PyInt(1), PyInt(2)>>),
     PyList(<<RuleKeyPlain, PyInt(1)>>)}

\* What the guarded code does: return a value, or raise an exception of
\* some class with some arguments, possibly `from` an earlier exception.
Returns(value) ==
    [does |-> "return", value |-> value, kind |-> "object", args |-> <<>>,
     chained |-> FALSE]
Raises(kind, args, chained) ==
    [does |-> "raise", value |-> PyNone, kind |-> kind, args |-> args,
     chained |-> chained]

Codes ==
    {Returns(PyInt(42)), Returns(PyNone),
     Raises("KeyError", <<PyStr(TxtMissing)>>, FALSE),
     Raises("KeyError", <<PyStr(TxtBoom)>>, TRUE),
     Raises("KeyError", <<PyStr(TxtIts)>>, FALSE),
     Raises("TypeError", <<PyStr(TxtBad)>>, FALSE),
     Raises("ValueError", <<PyStr(TxtBad)>>, TRUE),
     Raises("LookupError", <<>>, FALSE),
     Raises("BaseException", <<PyStr(TxtStop)>>, FALSE)}

\* The exception a `raise ... from` in the guarded code chains from.
PriorObject == ExcObject("ValueError", <<PyStr(TxtPrior)>>, 0, 0, FALSE)

\* ------------------------------------------------------------------- state

VARIABLES
    arg,        \* the argument Reraise is constructed with
    code,       \* what the guarded block / callable does
    pc,         \* where control is
    exception_transformations,  \* the guard's attribute
    wrappers,   \* the wrappers made by decorate and by __call__
    surface,    \* the surface in use
    active,     \* _raise_transformed_exception's *exception_transformations
    result,     \* the wrapper's local `result`
    error,      \* the exception caught (exc_value / error), 0 for none
    loop,       \* position of `for transform in ...`
    raised,     \* the exception propagating out, 0 for none
    consulted,  \* rules tested by isinstance during this use
    heap,       \* the exception objects created so far
    caught,     \* the caught exception and the heap size, as it was caught
    log,        \* one record per finished use of the guard
    outer       \* a second guard, around the blocks of the first

vars ==
    <<arg, code, pc, exception_transformations, wrappers, surface, active,
      result, error, loop, raised, consulted, heap, caught, log, outer>>

NoWrapper == [made |-> FALSE, ts |-> <<>>]

InitRest ==
    /\ code \in Codes
    /\ pc = "new"
    /\ exception_transformations = <<>>
    /\ wrappers = [w \in {"decorate", "call"} |-> NoWrapper]
    /\ surface = "none"
    /\ active = <<>>
    /\ result = PyNone
    /\ error = 0
    /\ loop = 0
    /\ raised = 0
    /\ consulted = 0
    /\ heap = <<>>
    /\ caught = [object |-> NoObject, heapsize |-> 0]
    /\ log = <<>>

\* No second guard.
NoOuter == [exception_transformations |-> <<>>, pc |-> "none", entered |-> 0]

\* The second guards: Reraise.__init__ has run on a sequence of rules; its
\* block has not started.
OuterGuards ==
    {[exception_transformations |-> NormalizeArg(PyList(q)).ts,
      pc |-> "idle", entered |-> 0] : q \in RuleSeqs(MaxOuterRules)}

\* Guards built from rules.
Init == arg \in GoodArgs /\ outer = NoOuter /\ InitRest

\* Guards built from anything.
InitAny == arg \in GoodArgs \cup BadArgs /\ outer = NoOuter /\ InitRest

\* Two guards built from rules, one to be used inside the block of the other.
InitNested == arg \in GoodArgs /\ outer \in OuterGuards /\ InitRest

\* One finished use: the surface, the exception the guarded code raised
\* (0 for none) with the copy of it made as it was caught, the exception
\* that left the guard (0 for none), the value returned, whether __exit__
\* returned, the number of rules tested, the number of exception objects
\* constructed since the catch, and the rules the matcher was called with.
Use(observed, left, returned, exited) ==
    [surface |-> surface,
     observed |-> observed,
     snapshot |-> caught.object,
     created |-> Len(heap) - caught.heapsize,
     raised |-> left,
     returned |-> returned,
     exit_returned |-> exited,
     consulted |-> consulted,
     transformations |-> active]

\* ----------------------------------------------------------------- actions

\* Reraise.__init__
ReraiseInit ==
    /\ pc = "new"
    /\ LET norm == NormalizeArg(arg)
       IN IF norm.ok
          THEN /\ exception_transformations' = norm.ts
               /\ pc' = "idle"
               /\ UNCHANGED <<heap, raised>>
          ELSE /\ heap' = Append(heap, NotIterable(arg))
               /\ raised' = Len(heap) + 1
               /\ pc' = "init_raised"
               /\ UNCHANGED exception_transformations
    /\ UNCHANGED <<outer, arg, code, wrappers, surface, active, result, error, loop,
                   consulted, caught, log>>

\* Reraise.__enter__: the guard itself, and the block starts.
Enter ==
    /\ pc = "idle"
    /\ Len(log) < MaxUses
    /\ surface' = "with"
    /\ pc' = "block"
    /\ consulted' = 0
    /\ active' = <<>>
    /\ UNCHANGED <<outer, arg, code, exception_transformations, wrappers, result,
                   error, loop, raised, heap, caught, log>>

\* Reraise.decorate
Decorate ==
    /\ pc = "idle"
    /\ Len(log) < MaxUses
    /\ ~wrappers["decorate"].made
    /\ wrappers' = [wrappers EXCEPT !["decorate"] =
                       [made |-> TRUE, ts |-> Decorated(exception_transformations)]]
    /\ UNCHANGED <<outer, arg, code, pc, exception_transformations, surface, active,
                   result, error, loop, raised, consulted, heap, caught,
                   log>>

\* Reraise.__call__
Call ==
    /\ pc = "idle"
    /\ Len(log) < MaxUses
    /\ ~wrappers["call"].made
    /\ wrappers' = [wrappers EXCEPT !["call"] =
                       [made |-> TRUE, ts |-> Called(exception_transformations)]]
    /\ UNCHANGED <<outer, arg, code, pc, exception_transformations, surface, active,
                   result, error, loop, raised, consulted, heap, caught,
                   log>>

\* wrapper(*args, **kwargs): result = None, and the try block starts.
WrapperInvoke(w) ==
    /\ pc = "idle"
    /\ Len(log) < MaxUses
    /\ wrappers[w].made
    /\ surface' = w
    /\ result' = PyNone
    /\ pc' = "try"
    /\ consulted' = 0
    /\ active' = <<>>
    /\ UNCHANGED <<outer, arg, code, exception_transformations, wrappers, error,
                   loop, raised, heap, caught, log>>

\* The guarded code returns: the block ends with no exception, or
\* result = callable_(*args, **kwargs).
BodyReturns ==
    /\ pc \in {"block", "try"}
    /\ code.does = "return"
    /\ IF surface = "with"
       THEN pc' = "exit" /\ UNCHANGED result
       ELSE pc' = "wrapper_return" /\ result' = code.value
    /\ error' = 0
    /\ caught' = [object |-> NoObject, heapsize |-> Len(heap)]
    /\ UNCHANGED <<outer, arg, code, exception_transformations, wrappers, surface,
                   active, loop, raised, consulted, heap, log>>

\* The guarded code raises: a new exception object, chained from another
\* new one when the code says `from`; __exit__ gets it as exc_value, the
\* wrapper's except clause as error.
BodyRaises ==
    /\ pc \in {"block", "try"}
    /\ code.does = "raise"
    /\ IF code.chained
       THEN /\ heap' = heap \o <<PriorObject,
                                 ExcObject(code.kind, code.args, Len(heap) + 1,
                                           0, TRUE)>>
            /\ error' = Len(heap) + 2
       ELSE /\ heap' = Append(heap, ExcObject(code.kind, code.args, 0, 0, FALSE))
            /\ error' = Len(heap) + 1
    /\ caught' = [object |-> heap'[error'], heapsize |-> Len(heap')]
    /\ pc' = IF surface = "with" THEN "exit" ELSE "except"
    /\ UNCHANGED <<outer, arg, code, exception_transformations, wrappers, surface,
                   active, result, loop, raised, consulted, log>>

\* Reraise.__exit__: with no exception it returns False; otherwise it calls
\* _raise_transformed_exception(*self.exception_transformations, error=error).
Exit ==
    /\ pc = "exit"
    /\ IF error = 0
       THEN pc' = "exit_false" /\ UNCHANGED <<active, loop>>
       ELSE pc' = "match" /\ active' = exception_transformations /\ loop' = 1
    /\ UNCHANGED <<outer, arg, code, exception_transformations, wrappers, surface,
                   result, error, raised, consulted, heap, caught, log>>

\* wrapper, `except BaseException as error`: it calls
\* _raise_transformed_exception(*exception_transformations, error=error).
WrapperExcept ==
    /\ pc = "except"
    /\ pc' = "match"
    /\ active' = wrappers[surface].ts
    /\ loop' = 1
    /\ UNCHANGED <<outer, arg, code, exception_transformations, wrappers, surface,
                   result, error, raised, consulted, heap, caught, log>>

\* _raise_transformed_exception: one turn of the loop, or the statement
\* after it.  A return from the function goes back to its caller.  The
\* rule _transform_and_raise was called on is, after the call, what the
\* guard and the wrappers hold in its place.
Match ==
    /\ pc = "match"
    /\ LET d == LoopDecision(active, loop, Matched(heap, error))
       IN CASE d = "next" ->
                 /\ loop' = loop + 1
                 /\ consulted' = consulted + 1
                 /\ UNCHANGED <<pc, heap, raised, exception_transformations,
                                wrappers, outer>>
            [] d = "transform" ->
                 /\ heap' = Append(heap, TransformAndRaise(active[loop], error,
                                                           error, heap))
                 /\ raised' = Len(heap) + 1
                 /\ consulted' = consulted + 1
                 /\ pc' = "unwind"
                 /\ LET after == RuleAfter(active[loop], heap[error])
                    IN /\ exception_transformations' =
                              Held(exception_transformations, active[loop],
                                   after)
                       /\ wrappers' =
                              [w \in DOMAIN wrappers |->
                                  [wrappers[w] EXCEPT
                                      !.ts = Held(@, active[loop], after)]]
                       /\ outer' =
                              [outer EXCEPT
                                  !.exception_transformations =
                                      Held(@, active[loop], after)]
                 /\ UNCHANGED loop
            [] d = "attribute_error" ->
                 /\ heap' = Append(heap, NoAttribute(active[loop], error))
                 /\ raised' = Len(heap) + 1
                 /\ pc' = "unwind"
                 /\ UNCHANGED <<loop, consulted, exception_transformations,
                                wrappers, outer>>
            [] d = "raise_error" ->
                 /\ raised' = error
                 /\ pc' = "unwind"
                 /\ UNCHANGED <<loop, consulted, heap,
                                exception_transformations, wrappers, outer>>
            [] OTHER ->
                 /\ pc' = IF surface \in {"with", "outer"} THEN "exit_false"
                          ELSE "wrapper_return"
                 /\ UNCHANGED <<loop, consulted, heap, raised,
                                exception_transformations, wrappers, outer>>
    /\ UNCHANGED <<arg, code, surface, active, result, error, caught, log>>

\* wrapper, `return result`.
WrapperReturn ==
    /\ pc = "wrapper_return"
    /\ log' = Append(log, Use(error, 0, WrapperResult(result), FALSE))
    /\ pc' = "idle"
    /\ error' = 0
    /\ UNCHANGED <<outer, arg, code, exception_transformations, wrappers, surface,
                   active, result, loop, raised, consulted, heap, caught>>

\* __exit__ returned False: the with statement ends when there was no
\* exception, and re-raises the exception of the block when there was one.
WithLeave ==
    /\ pc = "exit_false"
    /\ log' = Append(log, Use(error, error, PyBool(FALSE), TRUE))
    /\ pc' = "idle"
    /\ error' = 0
    /\ UNCHANGED <<outer, arg, code, exception_transformations, wrappers, surface,
                   active, result, loop, raised, consulted, heap, caught>>

\* The exception raised by _raise_transformed_exception leaves __exit__ or
\* the wrapper.
Propagate ==
    /\ pc = "unwind"
    /\ log' = Append(log, Use(error, raised, PyNone, FALSE))
    /\ pc' = "idle"
    /\ error' = 0
    /\ raised' = 0
    /\ UNCHANGED <<outer, arg, code, exception_transformations, wrappers, surface,
                   active, result, loop, consulted, heap, caught>>

Next ==
    \/ ReraiseInit
    \/ Enter
    \/ Decorate
    \/ Call
    \/ \E w \in {"decorate", "call"} : WrapperInvoke(w)
    \/ BodyReturns
    \/ BodyRaises
    \/ Exit
    \/ WrapperExcept
    \/ Match
    \/ WrapperReturn
    \/ WithLeave
    \/ Propagate

Spec == Init /\ [][Next]_vars

SpecAny == InitAny /\ [][Next]_vars

\* ------------------------------------------------------- nested guards

\* The exception leaving the last block that ended inside the second
\* guard's block, 0 when none is or when no block has ended there yet.
Propagating ==
    IF Len(log) > outer.entered THEN log[Len(log)].raised ELSE 0

\* Reraise.__enter__ of the second guard: its block starts.  The block is
\* run once.
OuterEnter ==
    /\ pc = "idle"
    /\ outer.pc = "idle"
    /\ Len(log) < MaxUses
    /\ outer' = [outer EXCEPT !.pc = "block", !.entered = Len(log)]
    /\ UNCHANGED <<arg, code, pc, exception_transformations, wrappers, surface,
                   active, result, error, loop, raised, consulted, heap,
                   caught, log>>

\* Reraise.__enter__ of the first guard, inside the second guard's block:
\* the statement is reached only while no exception is leaving the block.
InnerEnter ==
    /\ outer.pc = "block"
    /\ Propagating = 0
    /\ Enter

\* Reraise.__exit__ of the second guard: its block has ended, normally or
\* with the exception leaving the first guard's block as exc_value.  With
\* no exception it returns False; otherwise it calls
\* _raise_transformed_exception(*self.exception_transformations, error=error).
OuterExit ==
    /\ pc = "idle"
    /\ outer.pc = "block"
    /\ Len(log) > outer.entered
    /\ outer' = [outer EXCEPT !.pc = "exit"]
    /\ surface' = "outer"
    /\ error' = Propagating
    /\ consulted' = 0
    /\ caught' = [object |-> IF Propagating = 0 THEN NoObject
                             ELSE heap[Propagating],
                  heapsize |-> Len(heap)]
    /\ IF Propagating = 0
       THEN pc' = "exit_false" /\ active' = <<>> /\ UNCHANGED loop
       ELSE /\ pc' = "match"
            /\ active' = outer.exception_transformations
            /\ loop' = 1
    /\ UNCHANGED <<arg, code, exception_transformations, wrappers, result,
                   raised, heap, log>>

NextNested ==
    \/ ReraiseInit
    \/ OuterEnter
    \/ InnerEnter
    \/ BodyReturns
    \/ BodyRaises
    \/ Exit
    \/ Match
    \/ WithLeave
    \/ Propagate
    \/ OuterExit

SpecNested == InitNested /\ [][NextNested]_vars

\* ------------------------------------------------------------ properties

\* The finished uses, by their position in the log, and those among them
\* in which the guarded code raised.
Uses == DOMAIN log
ErrorUses == {n \in Uses : log[n].observed # 0}

\* The positions of the rules of a use that the caught exception is an
\* instance of, and the first of them.
MatchingRules(u) ==
    {j \in 1..Len(u.transformations) :
        /\ u.transformations[j].t = "ExceptionTransformation"
        /\ IsInstance(u.snapshot.kind, u.transformations[j].original_exception)}
FirstRule(u) ==
    CHOOSE j \in MatchingRules(u) : \A k \in MatchingRules(u) : j <= k

\* The exception that left the guard in a use is the one rule r gives for
\* the caught exception: a new object of r's new kind, carrying r's
\* message, with r's cause.
OutcomeOfRule(u, r) ==
    /\ u.raised \notin {0, u.observed}
    /\ heap[u.raised].kind = r.new_exception
    /\ heap[u.raised].args = <<ErrorMessage(r, u.snapshot)>>
    /\ heap[u.raised].cause = IF r.from_error THEN u.observed ELSE 0

\* C1: whenever some rule matches the caught exception, the exception that
\* leaves the guard is the outcome of the first matching rule in declaration
\* order, and no rule after it has been tested.
C1_FirstMatchWins ==
    \A n \in ErrorUses : LET u == log[n] IN
        MatchingRules(u) # {} =>
            /\ OutcomeOfRule(u, u.transformations[FirstRule(u)])
            /\ u.consulted = FirstRule(u)

\* C1, its case: a KeyError met the rules [KeyError -> ValueError,
\* Exception -> RuntimeError] and left as the first rule's ValueError.
C1_Witness ==
    \E n \in ErrorUses : LET u == log[n] IN
        /\ u.transformations = <<RuleKeyPlain, RuleAnyFixed>>
        /\ u.snapshot.kind = "KeyError"
        /\ MatchingRules(u) = {1, 2}
        /\ heap[u.raised].kind = "ValueError"
        /\ u.consulted = 1

C3_AbsentMessageIsOriginal ==
    \A n \in ErrorUses : LET u == log[n] IN
        (/\ MatchingRules(u) # {}
         /\ u.transformations[FirstRule(u)].error_message = PyNone) =>
            /\ u.raised \notin {0, u.observed}
            /\ heap[u.raised].args = <<PyStr(Str(u.snapshot))>>
            /\ Str(heap[u.raised]) = Str(u.snapshot)

\* C4: for a matched rule, the replacement's cause is the caught object
\* itself when the rule chains and none when it does not, the caught
\* exception being the one in flight as the replacement is raised.
C4_CausePolicy ==
    \A n \in ErrorUses : LET u == log[n] IN
        MatchingRules(u) # {} =>
            LET r == u.transformations[FirstRule(u)]
            IN /\ u.raised \notin {0, u.observed}
               /\ heap[u.raised].context = u.observed
               /\ r.from_error => heap[u.raised].cause = u.observed
               /\ ~r.from_error => heap[u.raised].cause = 0

\* C4, its cases: a rule that does not chain left no cause although the
\* caught exception was in flight, from __exit__ or from the wrapper.
C4_Witness ==
    \E n \in ErrorUses : LET u == log[n] IN
        /\ MatchingRules(u) # {}
        /\ ~u.transformations[FirstRule(u)].from_error
        /\ u.raised \notin {0, u.observed}
        /\ heap[u.raised].context = u.observed
        /\ heap[u.raised].cause = 0

\* The exception that left a use is the caught one, or a new one of the
\* first matching rule's new kind.
TransformedOrOriginal(u) ==
    \/ u.raised = u.observed
    \/ /\ u.raised > u.observed
       /\ MatchingRules(u) # {}
       /\ heap[u.raised].kind = u.transformations[FirstRule(u)].new_exception

\* C5: with an exception in flight, control leaves __exit__ and the wrapper
\* by a raise of the transformed or of the original exception: __exit__
\* returns no value and the wrapper does not reach `return result`.
C5_NeverSwallows ==
    /\ pc \in {"wrapper_return", "exit_false"} => error = 0
    /\ \A n \in ErrorUses : LET u == log[n] IN
           /\ u.raised # 0
           /\ TransformedOrOriginal(u)
           /\ ~u.exit_returned
           /\ u.returned = PyNone

\* C5, its cases: an exception no rule matched left a scoped block, and one
\* left a wrapped call.
C5_Witness ==
    /\ \E n \in ErrorUses : LET u == log[n] IN
           u.surface = "with" /\ MatchingRules(u) = {} /\ u.raised = u.observed
    /\ \E n \in ErrorUses : LET u == log[n] IN
           u.surface # "with" /\ MatchingRules(u) = {} /\ u.raised = u.observed

\* C6: when the guarded code raises nothing, nothing is raised and no rule
\* is tested: the wrapped call returns the callable's value, and __exit__
\* returns False.
C6_NoErrorPassesThrough ==
    \A n \in Uses : LET u == log[n] IN
        u.observed = 0 =>
            /\ u.raised = 0
            /\ u.consulted = 0
            /\ u.created = 0
            /\ u.surface = "with" => u.exit_returned /\ u.returned = PyBool(FALSE)
            /\ u.surface # "with" => ~u.exit_returned /\ u.returned = code.value

\* C6, its case: a callable returning 42 was called through a wrapper of a
\* guard that has rules, and a scoped block ended without an exception.
C6_Witness ==
    /\ Len(exception_transformations) > 0
    /\ \E n \in Uses : LET u == log[n] IN
           u.surface # "with" /\ u.observed = 0 /\ u.returned = PyInt(42)
    /\ \E n \in Uses : LET u == log[n] IN
           u.surface = "with" /\ u.observed = 0 /\ u.exit_returned

\* The positions of the elements of a use's rule set that are not rules.
NonRules(u) ==
    {j \in 1..Len(u.transformations) :
        u.transformations[j].t # "ExceptionTransformation"}

\* The element of a use's rule set at position j is reached by the loop:
\* no rule before it matches, no element before it is a non-rule.
Reached(u, j) ==
    \A k \in 1..(j - 1) : k \notin MatchingRules(u) /\ k \notin NonRules(u)

\* C7 as claimed: a guard constructed from an argument that is neither a
\* rule nor a sequence of rules has failed once its construction is over.
C7_AnyMisuseFailsAtConstruction ==
    (arg \in BadArgs /\ pc # "new") => pc = "init_raised"

\* C7, amended: an argument that is neither a rule nor iterable fails at
\* construction with a TypeError and nothing else happens; an iterable is
\* accepted whatever its elements are, its elements are stored as they
\* come, a use with no exception ends normally, and an element that is not
\* a rule fails at matching time, with an AttributeError, exactly when the
\* loop reaches it.
C7_OnlyNonIterableFailsAtConstruction ==
    /\ (pc # "new" /\ arg.t \notin {"ExceptionTransformation", "list", "str"}) =>
           /\ pc = "init_raised"
           /\ Len(heap) = 1 /\ raised = 1
           /\ heap[1].kind = "TypeError"
           /\ exception_transformations = <<>>
           /\ log = <<>>
    /\ (pc # "new" /\ arg.t \in {"list", "str"}) =>
           /\ pc # "init_raised"
           /\ exception_transformations = TupleOf(arg)
    /\ \A n \in Uses : LET u == log[n] IN u.observed = 0 => u.raised = 0
    /\ \A n \in ErrorUses : LET u == log[n] IN
           (\E j \in NonRules(u) : Reached(u, j)) <=>
               /\ u.raised \notin {0, u.observed}
               /\ heap[u.raised].kind = "AttributeError"
               /\ heap[u.raised].context = u.observed

\* C7, its case: a guard was constructed from the str "ab" and holds its
\* two characters, and guarded code that raised left with an AttributeError.
C7_Witness ==
    /\ arg = PyStr(<<"a", "b">>)
    /\ exception_transformations = <<PyStr(<<"a">>), PyStr(<<"b">>)>>
    /\ \E n \in ErrorUses : LET u == log[n] IN
           /\ u.raised \notin {0, u.observed}
           /\ heap[u.raised].kind = "AttributeError"

\* The builtin classes in use, each paired with its proper ancestors.
ProperAncestors ==
    {<<"Exception", "BaseException">>,
     <<"LookupError", "Exception">>, <<"LookupError", "BaseException">>,
     <<"KeyError", "LookupError">>, <<"KeyError", "Exception">>,
     <<"KeyError", "BaseException">>,
     <<"ValueError", "Exception">>, <<"ValueError", "BaseException">>,
     <<"TypeError", "Exception">>, <<"TypeError", "BaseException">>,
     <<"RuntimeError", "Exception">>, <<"RuntimeError", "BaseException">>,
     <<"AttributeError", "Exception">>, <<"AttributeError", "BaseException">>}

IsA(kind, cls) == kind = cls \/ <<kind, cls>> \in ProperAncestors

\* C8: a tested rule matches the caught exception exactly when the
\* exception's class is the rule's original_exception or a descendant of
\* it: the rules tested before the last did not match and are not for the
\* class or an ancestor, the last tested rule transformed the exception
\* exactly when it is, and an exception that left unchanged met no such rule.
C8_IsAMatching ==
    \A n \in ErrorUses : LET u == log[n] IN
        /\ \A j \in 1..u.consulted :
               (j = u.consulted /\ u.raised # u.observed)
                   <=> IsA(u.snapshot.kind,
                           u.transformations[j].original_exception)
        /\ u.raised = u.observed =>
               /\ u.consulted = Len(u.transformations)
               /\ \A j \in 1..Len(u.transformations) :
                      ~IsA(u.snapshot.kind,
                           u.transformations[j].original_exception)

\* C8, its case: a LookupError passed the rule for its descendant KeyError
\* and was transformed by the rule for its ancestor Exception.
C8_Witness ==
    \E n \in ErrorUses : LET u == log[n] IN
        /\ u.snapshot.kind = "LookupError"
        /\ u.transformations = <<RuleKeyPlain, RuleAnyFixed>>
        /\ u.consulted = 2
        /\ u.raised # u.observed
        /\ heap[u.raised].kind = "RuntimeError"

\* The placeholder for the caught exception's message, braced and bare.
Braced == <<"$", "{">> \o OrigName \o <<"}">>
Named == <<"$">> \o OrigName

OccursAt(pat, chars, p) ==
    /\ p + Len(pat) - 1 <= Len(chars)
    /\ chars[p] = pat[1]
    /\ SubSeq(chars, p, p + Len(pat) - 1) = pat
Contains(pat, chars) == \E p \in 1..Len(chars) : OccursAt(pat, chars, p)

\* A text with no placeholder for the caught message and no $$ in it,
\* which does not end in a $ either.
Literal(chars) ==
    /\ ~Contains(OrigName, chars)
    /\ ~Contains(<<"$", "$">>, chars)
    /\ chars = <<>> \/ chars[Len(chars)] # "$"

\* The placeholder pat stands at position p of the template chars, as a
\* whole name.
PlaceholderAt(pat, chars, p) ==
    /\ OccursAt(pat, chars, p)
    /\ pat = Named =>
           \/ p + Len(pat) > Len(chars)
           \/ chars[p + Len(pat)] \notin IdChar

\* The str out is the template tpl with the original_error_message
\* placeholder replaced by v: the text before the placeholder is kept as
\* it stands, other placeholders in it included, and so is the text after
\* it when it holds no $; a template that does not name
\* original_error_message is kept whole.
Spliced(tpl, v, out) ==
    /\ out.t = "str"
    /\ \A pat \in {Braced, Named} : \A p \in 1..Len(tpl) :
           (/\ PlaceholderAt(pat, tpl, p)
            /\ Literal(SubSeq(tpl, 1, p - 1))) =>
               LET pre == SubSeq(tpl, 1, p - 1)
                   post == SubSeq(tpl, p + Len(pat), Len(tpl))
               IN /\ Len(out.s) >= Len(pre) + Len(v)
                  /\ SubSeq(out.s, 1, Len(pre) + Len(v)) = pre \o v
                  /\ "$" \notin Range(post) => out.s = pre \o v \o post
    /\ Literal(tpl) => out.s = tpl

\* C9: for a matched rule whose message is a Template, the replacement is
\* an exception of the rule's new kind whose message is the template with
\* the original_error_message placeholder replaced by str(error), any
\* other placeholder left as written.
C9_TemplateSubstitution ==
    \A n \in ErrorUses : LET u == log[n] IN
        MatchingRules(u) # {} =>
            \A r \in {u.transformations[FirstRule(u)]} :
                r.error_message.t = "Template" =>
                    /\ u.raised \notin {0, u.observed}
                    /\ heap[u.raised].kind = r.new_exception
                    /\ Spliced(r.error_message.s, Str(u.snapshot),
                               heap[u.raised].args[1])

\* C9, its case: the rule KeyError -> ValueError with the template
\* "Error: ${original_error_message}", chaining, met KeyError('boom') and
\* gave a ValueError with the message "Error: 'boom'" caused by it.
C9_Witness ==
    \E n \in ErrorUses : LET u == log[n] IN
        /\ u.transformations = <<RuleKeyTemplate>>
        /\ u.snapshot.kind = "KeyError"
        /\ u.snapshot.args = <<PyStr(TxtBoom)>>
        /\ u.raised \notin {0, u.observed}
        /\ heap[u.raised].kind = "ValueError"
        /\ heap[u.raised].args =
               <<PyStr(<<"E", "r", "r", "o", "r", ":", " ", "'", "b", "o", "o",
                         "m", "'">>)>>
        /\ heap[u.raised].cause = u.observed

\* What an exception object shows apart from its identity.
Shown(o) == [kind |-> o.kind, args |-> o.args, caused |-> o.cause # 0]

\* What a use gave: a normal end, or a raise of the caught object or of a
\* new one, with its class, its arguments and its cause (none, the caught
\* object, or another exception).
Outcome(u) ==
    IF u.raised = 0
    THEN [left |-> "normally", same |-> FALSE, shown |-> Shown(NoObject),
          cause_same |-> FALSE, cause |-> Shown(NoObject)]
    ELSE [left |-> "raise",
          same |-> u.raised = u.observed,
          shown |-> Shown(heap[u.raised]),
          cause_same |-> heap[u.raised].cause = u.observed,
          cause |-> IF heap[u.raised].cause = 0 THEN Shown(NoObject)
                    ELSE Shown(heap[heap[u.raised].cause])]

\* C10: the same guarded code under the same guard gives the same outcome
\* on the three surfaces: a scoped block, a callable wrapped by decorate and
\* a callable wrapped by calling the guard end alike, normally or with a
\* raise of the same class, message and cause.
C10_SurfacesAgree ==
    \A n1, n2 \in Uses :
        log[n1].surface # log[n2].surface => Outcome(log[n1]) = Outcome(log[n2])

\* C10, its case: a scoped block and a callable wrapped by calling the
\* guard both ended with a transformed exception.
C10_Witness ==
    \E n1, n2 \in Uses : LET u1 == log[n1] u2 == log[n2] IN
        /\ u1.surface = "with" /\ u2.surface = "call"
        /\ u1.observed # 0 /\ u1.raised \notin {0, u1.observed}
        /\ u2.observed # 0 /\ u2.raised \notin {0, u2.observed}
        /\ heap[u1.raised].cause = u1.observed
        /\ heap[u2.raised].cause = u2.observed

\* The rules a guard is given, in the order they are given: the rule itself,
\* or the items of the sequence.
RulesGiven(x) == IF x.t = "ExceptionTransformation" THEN <<x>> ELSE x.items

\* C11: a guard constructed from a single rule is the guard constructed from
\* the one-element sequence of that rule, and a guard constructed from a
\* sequence holds exactly the rules of the sequence, in the same order, with
\* none dropped, repeated rules kept; every exception a use catches is
\* matched against exactly these rules, whatever shape the argument had.
C11_SingleRuleIsOneElementSequence ==
    /\ \A r \in Rules : NormalizeArg(r) = NormalizeArg(PyList(<<r>>))
    /\ pc # "new" =>
           /\ exception_transformations = RulesGiven(arg)
           /\ \A n \in ErrorUses : log[n].transformations = RulesGiven(arg)

\* C11, its case: a guard constructed from the single rule
\* KeyError -> ValueError holds the one-element tuple of it, and a KeyError
\* caught under it was matched against that tuple and transformed.
C11_Witness ==
    /\ arg = RuleKeyPlain
    /\ exception_transformations = <<RuleKeyPlain>>
    /\ \E n \in ErrorUses : LET u == log[n] IN
           /\ u.transformations = <<RuleKeyPlain>>
           /\ u.snapshot.kind = "KeyError"
           /\ OutcomeOfRule(u, RuleKeyPlain)

\* C12: after construction no step of any use changes the guard's rule set
\* or the rule set a wrapper closed over: no rule is added, removed,
\* reordered, or altered in any of its four fields; and two uses of the
\* guard that catch exceptions of the same class and arguments are matched
\* against the same rule set and end with the same outcome.
C12_RulesFixedAfterConstruction ==
    /\ [](\A n1, n2 \in ErrorUses : LET u1 == log[n1] u2 == log[n2] IN
             Shown(u1.snapshot) = Shown(u2.snapshot) =>
                 /\ u1.transformations = u2.transformations
                 /\ u1.transformations = exception_transformations
                 /\ Outcome(u1) = Outcome(u2))
    /\ [][pc # "new" =>
             /\ exception_transformations' = exception_transformations
             /\ \A w \in DOMAIN wrappers :
                    wrappers[w].made => wrappers'[w] = wrappers[w]]_vars

\* C12, its case: a guard holding a rule with a template was used twice on
\* the same surface, both uses caught an exception and left with the rule's
\* exception, and the guard still holds the rules it was constructed with.
C12_Witness ==
    /\ exception_transformations = <<RuleKeyTemplate>>
    /\ \E n1, n2 \in ErrorUses : LET u1 == log[n1] u2 == log[n2] IN
           /\ n1 < n2
           /\ u1.surface = u2.surface
           /\ OutcomeOfRule(u1, RuleKeyTemplate)
           /\ OutcomeOfRule(u2, RuleKeyTemplate)

\* The ends of the second guard's blocks, by their position in the log; the
\* use before each is the block of the first guard that ended inside it.
OuterUses == {n \in Uses : log[n].surface = "outer"}

\* What the matcher gives a use: the outcome of the first matching rule of
\* the rules it was called with, or the caught exception itself.
MatcherApplied(u) ==
    IF MatchingRules(u) # {}
    THEN OutcomeOfRule(u, u.transformations[FirstRule(u)])
    ELSE u.raised = u.observed

\* C13: with one guard's block inside another's the rule sets are not
\* merged.  The exception raised in the inner block is matched against the
\* inner guard's rules only; the outer guard's __exit__ gets the exception
\* that left the inner guard (the inner guard's new exception, or the
\* original when no inner rule matched) and matches that one against the
\* outer guard's rules only.  The final outcome is the outer matcher applied
\* to the inner matcher's result: once the inner guard has transformed the
\* exception, no outer rule is applied to the original.
C13_NestedGuardsCompose ==
    \A n \in OuterUses : LET u == log[n] inner == log[n - 1] IN
        /\ inner.surface = "with"
        /\ u.observed = inner.raised
        /\ inner.observed # 0 =>
               /\ inner.transformations = exception_transformations
               /\ MatcherApplied(inner)
        /\ u.observed # 0 =>
               /\ u.snapshot = heap[inner.raised]
               /\ u.transformations = outer.exception_transformations
               /\ MatcherApplied(u)
        /\ (u.observed # 0 /\ inner.raised # inner.observed) =>
               /\ u.raised # inner.observed
               /\ u.raised # u.observed =>
                      /\ heap[u.raised].cause # inner.observed
                      /\ heap[u.raised].context = inner.raised

\* C13, its case: the inner guard turned a KeyError into a ValueError; the
\* outer guard's only rule is for KeyError, so it matches the original and
\* not the ValueError, and the ValueError left the outer guard as it was.
C13_Witness ==
    \E n \in OuterUses : LET u == log[n] inner == log[n - 1] IN
        /\ outer.exception_transformations = <<RuleKeyTemplate>>
        /\ inner.transformations = <<RuleKeyPlain>>
        /\ heap[inner.observed].kind = "KeyError"
        /\ inner.raised # inner.observed
        /\ heap[inner.raised].kind = "ValueError"
        /\ u.observed = inner.raised
        /\ u.raised = inner.raised

====
